---- MODULE Spec2Model ----
(***************************************************************************)
(* Window sets (FixedWindows / SlidingWindows), their in-place merge, and  *)
(* the emit-policy deserialiser of storey/dtypes.py.                       *)
(*                                                                         *)
(* Python objects live in a small heap: objs[i] holds the attributes of    *)
(* the i-th window set and objs[i].windows is a REFERENCE into lists, the  *)
(* heap of Python list objects, so that two window sets holding the same   *)
(* list object is a state the model can be in.                             *)
(***************************************************************************)
EXTENDS Integers, Sequences, FiniteSets, TLC

VARIABLES objs, lists, last,            \* window-set heap; kind and outcome of the last call on it
          sw_args, sw_obj, sw_pc,       \* one SlidingWindows(windows, period) call
          arg, policy_dict, policy, pc  \* one _dict_to_emit_policy(policy_dict) call

vars == <<objs, lists, last, sw_args, sw_obj, sw_pc, arg, policy_dict, policy, pc>>

----------------------------------------------------------------------------
(* Bounds *)

NObjs == 3          \* window sets alive at once
MaxLen == 2         \* length of a windows list handed to a constructor
MaxSwLen == 2       \* the same, for the single-constructor specification

----------------------------------------------------------------------------
(* Duration strings "[0-9]+[smhd]" are records [n, u]: "90m" is Dur(90, "m") *)

Dur(n, u) == [n |-> n, u |-> u]

NoPeriod == Dur(0, "")   \* period=None (falsy)

bucketPerWindow == 10

get_one_unit_of_duration(s) ==
    CASE s.u = "s" -> 1000
      [] s.u = "m" -> 60 * 1000
      [] s.u = "h" -> 60 * 60 * 1000
      [] s.u = "d" -> 24 * 60 * 60 * 1000

parse_duration(s) == s.n * get_one_unit_of_duration(s)

----------------------------------------------------------------------------
(* Arithmetic helpers: numpy.gcd.reduce / numpy.lcm.reduce *)

RECURSIVE Gcd(_, _)
Gcd(a, b) == IF b = 0 THEN a ELSE Gcd(b, a % b)

Lcm(a, b) == IF a = 0 \/ b = 0 THEN 0 ELSE (a \div Gcd(a, b)) * b

RECURSIVE get_window_optimal_size_millis(_)
get_window_optimal_size_millis(windows_tuples) ==
    IF Len(windows_tuples) = 1 THEN windows_tuples[1][1]
    ELSE Lcm(get_window_optimal_size_millis(SubSeq(windows_tuples, 1, Len(windows_tuples) - 1)),
             windows_tuples[Len(windows_tuples)][1])

RECURSIVE get_window_optimal_period_millis(_)
get_window_optimal_period_millis(windows_tuples) ==
    IF Len(windows_tuples) = 1 THEN windows_tuples[1][1]
    ELSE Gcd(get_window_optimal_period_millis(SubSeq(windows_tuples, 1, Len(windows_tuples) - 1)),
             windows_tuples[Len(windows_tuples)][1])

Range(s) == {s[k] : k \in DOMAIN s}

----------------------------------------------------------------------------
(* sort_windows_and_convert_to_millis, string branch: a stable sort by     *)
(* length of the (millis, label) tuples.                                   *)

RECURSIVE InsertStable(_, _)
InsertStable(sorted, t) ==
    IF sorted = <<>> THEN <<t>>
    ELSE IF Head(sorted)[1] <= t[1]
         THEN <<Head(sorted)>> \o InsertStable(Tail(sorted), t)
         ELSE <<t>> \o sorted

RECURSIVE SortStable(_)
SortStable(s) ==
    IF s = <<>> THEN <<>>
    ELSE InsertStable(SortStable(SubSeq(s, 1, Len(s) - 1)), s[Len(s)])

sort_windows_and_convert_to_millis(windows) ==
    SortStable([k \in DOMAIN windows |-> <<parse_duration(windows[k]), windows[k]>>])

----------------------------------------------------------------------------
(* The heap of window sets *)

Objs == 1..NObjs

Unset == [cls |-> "unset", period_millis |-> 0, windows |-> 0,
          max_window_millis |-> 0, smallest_window_millis |-> 0,
          window_millis |-> 0, total_number_of_buckets |-> 0,
          smallest_window_unit_millis |-> 0]

\* WindowsBase.__init__(self, period, windows): `ref` is the list object
\* bound to self.windows and `windows` its contents.
WindowsBase_init(self, period, ref, windows) ==
    [self EXCEPT !.max_window_millis = windows[Len(windows)][1],
                 !.smallest_window_millis = windows[1][1],
                 !.period_millis = period,
                 !.windows = ref,
                 !.window_millis = get_window_optimal_size_millis(windows),
                 !.total_number_of_buckets =
                     get_window_optimal_size_millis(windows) \div period]

\* The period FixedWindows.__init__ derives (every length is a multiple of
\* 1000 ms, so the true division by bucketPerWindow is exact).
FixedPeriod(windows_tuples) ==
    get_window_optimal_period_millis(windows_tuples) \div bucketPerWindow

\* FixedWindows.__init__ after sort_windows_and_convert_to_millis
FixedWindows_init(self, ref, windows_tuples) ==
    WindowsBase_init(
        [self EXCEPT !.cls = "FixedWindows",
                     !.smallest_window_unit_millis =
                         get_one_unit_of_duration(windows_tuples[1][2])],
        FixedPeriod(windows_tuples), ref, windows_tuples)

\* The loop of SlidingWindows.__init__ over an explicit period:
\* "ok", or the exception the first offending window raises.
PeriodCheck(windows_tuples, period_millis) ==
    IF period_millis = 0 THEN "ZeroDivisionError"
    ELSE IF \E k \in DOMAIN windows_tuples : windows_tuples[k][1] % period_millis # 0
         THEN "ValueError"
         ELSE "ok"

\* The period SlidingWindows.__init__ derives when none is given
SlidingDerivedPeriod(windows_tuples) ==
    get_one_unit_of_duration(windows_tuples[1][2]) \div bucketPerWindow

\* SlidingWindows.__init__ after sort_windows_and_convert_to_millis:
\* [err, obj]; obj is the constructed object when err = "none".
SlidingWindows_init(self, ref, windows_tuples, period) ==
    IF period # NoPeriod
    THEN IF PeriodCheck(windows_tuples, parse_duration(period)) # "ok"
         THEN [err |-> PeriodCheck(windows_tuples, parse_duration(period)), obj |-> self]
         ELSE [err |-> "none",
               obj |-> WindowsBase_init([self EXCEPT !.cls = "SlidingWindows"],
                                        parse_duration(period), ref, windows_tuples)]
    ELSE [err |-> "none",
          obj |-> WindowsBase_init([self EXCEPT !.cls = "SlidingWindows"],
                                   SlidingDerivedPeriod(windows_tuples), ref, windows_tuples)]

\* The loop of WindowsBase.merge: append each window of `new` that is not
\* (as a (millis, label) tuple) in self's list.
RECURSIVE AppendNew(_, _)
AppendNew(selfw, neww) ==
    IF neww = <<>> THEN selfw
    ELSE AppendNew(IF Head(neww) \in Range(selfw) THEN selfw
                   ELSE Append(selfw, Head(neww)),
                   Tail(neww))

\* The attribute updates under `if found_new_window:`. The closing
\* sorted(set(self.windows), ...) builds a new list and drops it.
WidenFrom(self, new) ==
    [self EXCEPT
       !.max_window_millis =
           IF self.max_window_millis < new.max_window_millis
           THEN new.max_window_millis ELSE @,
       !.smallest_window_millis =
           IF self.smallest_window_millis > new.smallest_window_millis
           THEN new.smallest_window_millis ELSE @,
       !.total_number_of_buckets =
           IF self.total_number_of_buckets < new.total_number_of_buckets
           THEN new.total_number_of_buckets ELSE @]

\* WindowsBase.merge(self = objs[i], new = objs[j]) on heap (os, ls)
WindowsBase_merge(os, ls, i, j) ==
    IF os[i].period_millis # os[j].period_millis
    THEN [err |-> "ValueError", objs |-> os, lists |-> ls]
    ELSE LET merged == AppendNew(ls[os[i].windows], ls[os[j].windows])
             found_new_window == merged # ls[os[i].windows]
         IN [err |-> "none",
             objs |-> IF found_new_window
                      THEN [os EXCEPT ![i] = WidenFrom(os[i], os[j])]
                      ELSE os,
             lists |-> [ls EXCEPT ![os[i].windows] = merged]]

\* FixedWindows.merge(self = objs[i], new = objs[j]): a non-FixedWindows
\* argument re-runs __init__ on new.windows, a list of tuples, which
\* sort_windows_and_convert_to_millis hands back as the same list object.
FixedWindows_merge(os, ls, i, j) ==
    IF os[j].cls = "FixedWindows"
    THEN WindowsBase_merge(os, ls, i, j)
    ELSE [err |-> "none",
          objs |-> [os EXCEPT ![i] = FixedWindows_init(os[i], os[j].windows,
                                                       ls[os[j].windows])],
          lists |-> ls]

----------------------------------------------------------------------------
(* Inputs of the window-set specification *)

WindowStrs == {Dur(1, "h"), Dur(2, "h"), Dur(60, "m")}

PeriodStrs == {NoPeriod, Dur(2, "h")}

SeqsUpTo(S, n) == UNION {[1..k -> S] : k \in 1..n}

NoCall == [op |-> "none", err |-> "none"]

IdleSliding == sw_args = <<>> /\ sw_obj = Unset /\ sw_pc = "idle"
IdleEmit == arg = <<>> /\ policy_dict = <<>> /\ policy = <<>> /\ pc = "idle"

\* Window sets are numbered in the order they are constructed: i is the
\* first free slot.
IsNext(i) == objs[i].cls = "unset" /\ \A k \in 1..(i - 1) : objs[k].cls # "unset"

InitWindows ==
    /\ objs = [i \in Objs |-> Unset]
    /\ lists = [i \in Objs |-> <<>>]
    /\ last = NoCall
    /\ IdleSliding
    /\ IdleEmit

\* objs[i] = FixedWindows(windows), windows a list of duration strings
NewFixedWindows(i, windows) ==
    /\ IsNext(i)
    /\ lists' = [lists EXCEPT ![i] = sort_windows_and_convert_to_millis(windows)]
    /\ objs' = [objs EXCEPT ![i] = FixedWindows_init(Unset, i, lists'[i])]
    /\ last' = [op |-> "new", err |-> "none"]
    /\ UNCHANGED <<sw_args, sw_obj, sw_pc, arg, policy_dict, policy, pc>>

\* objs[i] = SlidingWindows(windows, period); a raising constructor leaves
\* no object behind.
NewSlidingWindows(i, windows, period) ==
    /\ IsNext(i)
    /\ LET wt == sort_windows_and_convert_to_millis(windows)
           r == SlidingWindows_init(Unset, i, wt, period)
       IN /\ last' = [op |-> "new", err |-> r.err]
          /\ IF r.err = "none"
             THEN /\ lists' = [lists EXCEPT ![i] = wt]
                  /\ objs' = [objs EXCEPT ![i] = r.obj]
             ELSE UNCHANGED <<objs, lists>>
    /\ UNCHANGED <<sw_args, sw_obj, sw_pc, arg, policy_dict, policy, pc>>

\* objs[i] = FixedWindows(objs[j].windows) or SlidingWindows(objs[j].windows):
\* the tuple branch of sort_windows_and_convert_to_millis keeps the list.
NewFromTuples(i, j, cls) ==
    /\ IsNext(i)
    /\ objs[j].cls # "unset"
    /\ objs' = [objs EXCEPT ![i] =
                  IF cls = "FixedWindows"
                  THEN FixedWindows_init(Unset, objs[j].windows, lists[objs[j].windows])
                  ELSE SlidingWindows_init(Unset, objs[j].windows,
                                           lists[objs[j].windows], NoPeriod).obj]
    /\ last' = [op |-> "new", err |-> "none"]
    /\ UNCHANGED <<lists, sw_args, sw_obj, sw_pc, arg, policy_dict, policy, pc>>

\* objs[i].merge(objs[j]), dispatched on the receiver's class
Merge(i, j) ==
    /\ objs[i].cls # "unset"
    /\ objs[j].cls # "unset"
    /\ LET r == IF objs[i].cls = "FixedWindows"
                THEN FixedWindows_merge(objs, lists, i, j)
                ELSE WindowsBase_merge(objs, lists, i, j)
       IN /\ objs' = r.objs
          /\ lists' = r.lists
          /\ last' = [op |-> "merge", err |-> r.err]
    /\ UNCHANGED <<sw_args, sw_obj, sw_pc, arg, policy_dict, policy, pc>>

NextWindows ==
    \/ \E i \in Objs, windows \in SeqsUpTo(WindowStrs, MaxLen) :
          NewFixedWindows(i, windows)
    \/ \E i \in Objs, windows \in SeqsUpTo(WindowStrs, MaxLen), period \in PeriodStrs :
          NewSlidingWindows(i, windows, period)
    \/ \E i, j \in Objs, cls \in {"FixedWindows", "SlidingWindows"} :
          NewFromTuples(i, j, cls)
    \/ \E i, j \in Objs : Merge(i, j)

Spec == InitWindows /\ [][NextWindows]_vars

----------------------------------------------------------------------------
(* One call SlidingWindows(windows, period) *)

SwWindowStrs == {Dur(1, "h"), Dur(2, "h"), Dur(90, "m"), Dur(100, "m"), Dur(1, "d")}

SwPeriodStrs == {NoPeriod, Dur(30, "m"), Dur(45, "m"), Dur(1, "h"), Dur(0, "s")}

InitSliding ==
    /\ sw_args \in [windows : SeqsUpTo(SwWindowStrs, MaxSwLen), period : SwPeriodStrs]
    /\ sw_obj = Unset
    /\ sw_pc = "call"
    /\ objs = [i \in Objs |-> Unset]
    /\ lists = [i \in Objs |-> <<>>]
    /\ last = NoCall
    /\ IdleEmit

\* sw_obj = SlidingWindows(sw_args.windows, sw_args.period); sw_pc tells
\* whether the constructor returned or which exception it raised.
SlidingWindowsCall ==
    /\ sw_pc = "call"
    /\ LET wt == sort_windows_and_convert_to_millis(sw_args.windows)
           r == SlidingWindows_init(Unset, 1, wt, sw_args.period)
       IN /\ sw_pc' = IF r.err = "none" THEN "returned" ELSE r.err
          /\ sw_obj' = IF r.err = "none" THEN r.obj ELSE Unset
          /\ lists' = IF r.err = "none" THEN [lists EXCEPT ![1] = wt] ELSE lists
    /\ UNCHANGED <<objs, last, sw_args, arg, policy_dict, policy, pc>>

NextSliding == SlidingWindowsCall

SpecSliding == InitSliding /\ [][NextSliding]_vars

----------------------------------------------------------------------------
(* One call _dict_to_emit_policy(policy_dict). A dict is a function from   *)
(* its keys to its values.                                                 *)

EmitModes == {"everyEvent", "maxEvents", "afterDelay", "afterWindow", "afterPeriod"}

ModeValues == EmitModes \cup {"everyevent", "onTimer"}

OtherKeys == {"maxEvents", "delay", "timeout"}

ParamValues == {0, 30}

Dicts == UNION {
           UNION {
             {[k \in ks \cup ms |-> IF k = "mode" THEN m ELSE v[k]] : v \in [ks -> ParamValues]}
             : m \in ModeValues}
           : ks \in SUBSET OtherKeys, ms \in {{}, {"mode"}}}

\* dict.pop(key): the dict without the key
Pop(d, key) == [k \in (DOMAIN d) \ {key} |-> d[k]]

NoPolicy == [cls |-> "none"]

\* A deserialiser that tolerates extra keys
LeftoverIgnored(d) == FALSE

\* `if policy_dict:` - keys are left after the mode consumed its own
Leftover(d) == DOMAIN d # {}

\* The mode dispatch of _dict_to_emit_policy on the dict d left after
\* pop('mode'): [err, policy, dict] with the dict as the pops leave it.
Dispatch(mode, d) ==
    CASE mode = "everyEvent" ->
           [err |-> "none", policy |-> [cls |-> "EmitEveryEvent"], dict |-> d]
      [] mode = "maxEvents" ->
           IF "maxEvents" \notin DOMAIN d
           THEN [err |-> "ValueError", policy |-> NoPolicy, dict |-> d]
           ELSE [err |-> "none",
                 policy |-> [cls |-> "EmitAfterMaxEvent", max_events |-> d["maxEvents"]],
                 dict |-> Pop(d, "maxEvents")]
      [] mode = "afterDelay" ->
           IF "delay" \notin DOMAIN d
           THEN [err |-> "ValueError", policy |-> NoPolicy, dict |-> d]
           ELSE [err |-> "none",
                 policy |-> [cls |-> "EmitAfterDelay", delay_in_seconds |-> d["delay"]],
                 dict |-> Pop(d, "delay")]
      [] mode = "afterWindow" ->
           [err |-> "none",
            policy |-> [cls |-> "EmitAfterWindow",
                        delay_in_seconds |-> IF "delay" \in DOMAIN d THEN d["delay"] ELSE 0],
            dict |-> Pop(d, "delay")]
      [] mode = "afterPeriod" ->
           [err |-> "none",
            policy |-> [cls |-> "EmitAfterPeriod",
                        delay_in_seconds |-> IF "delay" \in DOMAIN d THEN d["delay"] ELSE 0],
            dict |-> Pop(d, "delay")]
      [] OTHER ->
           [err |-> "TypeError", policy |-> NoPolicy, dict |-> d]

\* _dict_to_emit_policy(d): [err, policy, dict]; a missing mode makes
\* pop('mode') raise KeyError.
_dict_to_emit_policy(d) ==
    IF "mode" \notin DOMAIN d
    THEN [err |-> "KeyError", policy |-> NoPolicy, dict |-> d]
    ELSE LET r == Dispatch(d["mode"], Pop(d, "mode"))
         IN IF r.err = "none" /\ Leftover(r.dict)
            THEN [err |-> "ValueError", policy |-> NoPolicy, dict |-> r.dict]
            ELSE r

InitEmit ==
    /\ arg \in Dicts
    /\ policy_dict = arg
    /\ policy = NoPolicy
    /\ pc = "call"
    /\ objs = [i \in Objs |-> Unset]
    /\ lists = [i \in Objs |-> <<>>]
    /\ last = NoCall
    /\ IdleSliding

\* policy = _dict_to_emit_policy(policy_dict); pc tells whether it returned
\* or which exception it raised.
DictToEmitPolicyCall ==
    /\ pc = "call"
    /\ LET r == _dict_to_emit_policy(policy_dict)
       IN /\ policy' = r.policy
          /\ policy_dict' = r.dict
          /\ pc' = IF r.err = "none" THEN "returned" ELSE r.err
    /\ UNCHANGED <<objs, lists, last, sw_args, sw_obj, sw_pc, arg>>

NextEmit == DictToEmitPolicyCall

SpecEmit == InitEmit /\ [][NextEmit]_vars

----------------------------------------------------------------------------
(* Properties of the window sets (specification Spec) *)

Live(i) == objs[i].cls # "unset"

\* The attributes of a window set as a caller reads them: self.windows is
\* the contents of the list it refers to.
Fields(o, ls) ==
    [windows |-> ls[o.windows],
     period_millis |-> o.period_millis,
     max_window_millis |-> o.max_window_millis,
     smallest_window_millis |-> o.smallest_window_millis,
     window_millis |-> o.window_millis,
     total_number_of_buckets |-> o.total_number_of_buckets]

Lengths(ws) == {ws[k][1] : k \in DOMAIN ws}

SetMax(S) == CHOOSE m \in S : \A n \in S : n <= m
SetMin(S) == CHOOSE m \in S : \A n \in S : m <= n

\* objs[i] is exactly what FixedWindows(strs) constructs
IsFreshFixed(i, strs) ==
    /\ Live(i)
    /\ lists[objs[i].windows] = sort_windows_and_convert_to_millis(strs)
    /\ objs[i] = FixedWindows_init(Unset, objs[i].windows, lists[objs[i].windows])

\* C1: A.merge(B) with different periods fails and leaves every field of A
\* unchanged, whatever the classes of A and B.
C1_DifferentPeriodsRejected ==
    [][\A i, j \in Objs :
         (Merge(i, j) /\ objs[i].period_millis # objs[j].period_millis)
         => /\ last'.err # "none"
            /\ Fields(objs'[i], lists') = Fields(objs[i], lists)]_vars

\* C2: merge is idempotent: when B's windows are a subset of A's windows,
\* A.merge(B) leaves every field of A unchanged.
C2_MergeIdempotent ==
    [][\A i, j \in Objs :
         (Merge(i, j) /\ Range(lists[objs[j].windows]) \subseteq Range(lists[objs[i].windows]))
         => Fields(objs'[i], lists') = Fields(objs[i], lists)]_vars

\* C3: merge is widening: a successful A.merge(B) never lowers A's
\* max_window_millis, window_millis or total_number_of_buckets and keeps
\* every window A had.
C3_MergeWidening ==
    [][\A i, j \in Objs :
         (Merge(i, j) /\ last'.err = "none")
         => /\ objs'[i].max_window_millis >= objs[i].max_window_millis
            /\ objs'[i].window_millis >= objs[i].window_millis
            /\ objs'[i].total_number_of_buckets >= objs[i].total_number_of_buckets
            /\ Range(lists[objs[i].windows]) \subseteq Range(lists'[objs'[i].windows])]_vars

\* C4: in every reachable state window_millis is the LCM of the lengths in
\* the windows list and total_number_of_buckets is window_millis / period_millis.
C4_SpanIsLcm ==
    \A i \in Objs : Live(i) =>
        /\ objs[i].window_millis = get_window_optimal_size_millis(lists[objs[i].windows])
        /\ objs[i].total_number_of_buckets * objs[i].period_millis = objs[i].window_millis

\* C5: in every reachable state the windows list is sorted ascending by
\* length and holds no two entries of the same length.
C5_SortedNoDuplicateLengths ==
    \A i \in Objs : Live(i) =>
        \A a, b \in DOMAIN lists[objs[i].windows] :
            a < b => lists[objs[i].windows][a][1] < lists[objs[i].windows][b][1]

\* C6: in every reachable state max_window_millis is the largest and
\* smallest_window_millis the smallest length in the windows list.
C6_MaxMinMatchList ==
    \A i \in Objs : Live(i) =>
        /\ objs[i].max_window_millis = SetMax(Lengths(lists[objs[i].windows]))
        /\ objs[i].smallest_window_millis = SetMin(Lengths(lists[objs[i].windows]))
        /\ objs[i].smallest_window_millis <= objs[i].max_window_millis

\* C7: FixedWindows(["1h"]) and FixedWindows(["2h"]) have the same period,
\* so FixedWindows(["1h"]).merge(FixedWindows(["2h"])) succeeds and the
\* receiver then holds both windows, max 2h and smallest 1h.
C7_OneHourMergesTwoHours ==
    [][\A i, j \in Objs :
         (Merge(i, j) /\ IsFreshFixed(i, <<Dur(1, "h")>>) /\ IsFreshFixed(j, <<Dur(2, "h")>>))
         => /\ objs[i].period_millis = objs[j].period_millis
            /\ last'.err = "none"
            /\ {<<parse_duration(Dur(1, "h")), Dur(1, "h")>>,
                <<parse_duration(Dur(2, "h")), Dur(2, "h")>>}
                   \subseteq Range(lists'[objs'[i].windows])
            /\ objs'[i].max_window_millis = parse_duration(Dur(2, "h"))
            /\ objs'[i].smallest_window_millis = parse_duration(Dur(1, "h"))]_vars

\* C10: A.merge(B) changes no field of any window set other than A, and
\* does not leave A and B holding one windows list.
C10_MergeLeavesOthersAlone ==
    [][\A i, j \in Objs :
         Merge(i, j)
         => /\ \A k \in Objs \ {i} : Live(k) => Fields(objs'[k], lists') = Fields(objs[k], lists)
            /\ (i # j /\ objs[i].windows # objs[j].windows)
                   => objs'[i].windows # objs'[j].windows]_vars

----------------------------------------------------------------------------
(* Properties of SlidingWindows(windows, period) (specification SpecSliding) *)

\* C9: a constructed SlidingWindows has a period_millis dividing every
\* window length, whether the period was given or derived; an explicit
\* period that does not divide some window fails and yields no object.
C9_PeriodDividesEveryWindow ==
    /\ sw_pc = "returned" =>
          \A k \in DOMAIN lists[sw_obj.windows] :
              lists[sw_obj.windows][k][1] % sw_obj.period_millis = 0
    /\ (/\ sw_pc \notin {"call", "idle"}
        /\ sw_args.period # NoPeriod
        /\ \E k \in DOMAIN sw_args.windows :
              \/ parse_duration(sw_args.period) = 0
              \/ parse_duration(sw_args.windows[k]) % parse_duration(sw_args.period) # 0)
       => (sw_pc # "returned" /\ sw_obj = Unset)

----------------------------------------------------------------------------
(* Properties of _dict_to_emit_policy (specification SpecEmit) *)

\* The keys each mode must find, and the keys it may find
RequiredKeys(mode) ==
    CASE mode = "maxEvents" -> {"maxEvents"}
      [] mode = "afterDelay" -> {"delay"}
      [] OTHER -> {}

ConsumedKeys(mode) ==
    CASE mode = "maxEvents" -> {"maxEvents"}
      [] mode \in {"afterDelay", "afterWindow", "afterPeriod"} -> {"delay"}
      [] OTHER -> {}

WellFormed(d) ==
    /\ "mode" \in DOMAIN d
    /\ d["mode"] \in EmitModes
    /\ RequiredKeys(d["mode"]) \subseteq DOMAIN d
    /\ (DOMAIN d) \ {"mode"} \subseteq ConsumedKeys(d["mode"])

\* C8: _dict_to_emit_policy returns a policy exactly when the mode is one
\* of the five known ones, the key that mode requires is present and no key
\* beyond the ones that mode consumes is present; otherwise it raises and
\* returns no policy.
C8_StrictEmitPolicy ==
    pc \notin {"call", "idle"} =>
        /\ (pc = "returned") <=> WellFormed(arg)
        /\ pc = "returned" => policy # NoPolicy
        /\ pc # "returned" => policy = NoPolicy

\* A maxEvents mapping with its required key and one extra key was rejected
C8_Witness ==
    /\ pc = "ValueError"
    /\ "mode" \in DOMAIN arg
    /\ arg["mode"] = "maxEvents"
    /\ DOMAIN arg = {"mode", "maxEvents", "timeout"}
    /\ DOMAIN policy_dict = {"timeout"}

====
